---- MODULE Spec2Model ----
(***************************************************************************)
(* Users and Tasks over a document store: the request handlers of          *)
(* routes/users (src/routes/_utils.js) and routes/tasks                    *)
(* (src/unnamed/part_000), one action per store call of a handler, and    *)
(* the query parsers of the two routers as operators on query strings.     *)
(* A handler runs between two store calls without interruption (Node's     *)
(* run-to-completion), and each store call is atomic in the store.         *)
(***************************************************************************)
EXTENDS Integers, Sequences, FiniteSets, TLC

\* ------------------------------------------------------------------ bounds
NumUsers == 2
NumTasks == 2
MaxListLen == 2
\* requests started in one behaviour of Spec, of SeqSpec and of FailSpec
ConcOps == 3
SeqOps == 3
FailOps == 2
\* requests started in one behaviour of IdSpec
IdOps == 2

\* ------------------------------------------------------------- id encoding
\* 0 is null / an absent body field, -1 a text that is no well-formed id,
\* -2 the empty string, n > 0 a well-formed id.
Null == 0
BadId == -1
EmptyStr == -2

UserIds == 1..NumUsers
TaskIds == 1..NumTasks
Procs == {1, 2}

VARIABLES users, tasks, nextUser, nextTask, proc, ops, partial, query

vars == <<users, tasks, nextUser, nextTask, proc, ops, partial, query>>

\* --------------------------------------------------------------- documents
NoUser == [exists |-> FALSE, name |-> "", email |-> "", pendingTasks |-> <<>>]
NoTask == [exists |-> FALSE, assignedUser |-> Null, assignedUserName |-> "",
           completed |-> FALSE]

\* the in-memory copy of a Task document a handler holds
NoDoc == [id |-> Null, assignedUser |-> Null, assignedUserName |-> "",
          completed |-> FALSE]
NoUDoc == [id |-> Null, name |-> "", email |-> "", pendingTasks |-> <<>>]

\* new Task({name, description, deadline, completed}): the schema defaults
TaskSchema(completed) ==
    [id |-> Null, assignedUser |-> Null, assignedUserName |-> "unassigned",
     completed |-> completed]

\* String.prototype.toLowerCase on the texts the requests carry
toLowerCase(s) ==
    CASE s = "A@X.COM" -> "a@x.com"
      [] s = "TRUE" -> "true"
      [] s = "False" -> "false"
      [] OTHER -> s

\* new User({name, email, pendingTasks}): email is stored in lowercase
UserSchema(name, email, list) ==
    [id |-> Null, name |-> name, email |-> toLowerCase(email), pendingTasks |-> list]

\* ------------------------------------------------------------ pure helpers
isValidObjectId(id) == id > 0

\* the raw values of body.completed: a boolean, absent, or a text
coerceCompleted(val, fallback) ==
    CASE val = "bool:true" -> TRUE
      [] val = "bool:false" -> FALSE
      [] val = "absent" -> fallback
      [] toLowerCase(val) = "true" -> TRUE
      [] toLowerCase(val) = "false" -> FALSE
      [] OTHER -> fallback

\* coerceDeadline throws on a value that is neither a number nor a date text
deadlineThrows(val) == val = "not-a-date"

Range(s) == {s[i] : i \in 1..Len(s)}

Count(s, x) == Cardinality({i \in 1..Len(s) : s[i] = x})

\* $pull taken for the removal of one occurrence
Pull_First(list, t) ==
    IF t \notin Range(list) THEN list
    ELSE LET i == CHOOSE k \in 1..Len(list) :
                     list[k] = t /\ \A j \in 1..(k - 1) : list[j] # t
         IN SubSeq(list, 1, i - 1) \o SubSeq(list, i + 1, Len(list))

\* {$pull: {pendingTasks: t}}: every occurrence goes
Pull(list, t) == SelectSeq(list, LAMBDA x : x # t)

\* the $push of an updateOne whose filter holds pendingTasks: {$ne: t}
PushIfAbsent(list, t) == IF t \in Range(list) THEN list ELSE Append(list, t)

\* the pull made on unassignment only
NeedPull_OnUnassignOnly(prev, curr) == prev # Null /\ curr = Null

\* the push made without comparing the assignees
NeedPush_Always(prev, curr) == curr # Null

\* prevAssignedUser && prevAssignedUser !== currAssignedUser
NeedPull(prev, curr) == prev # Null /\ prev # curr

\* currAssignedUser && prevAssignedUser !== currAssignedUser
NeedPush(prev, curr) == curr # Null /\ prev # curr

RECURSIVE SortedSeq(_)
SortedSeq(S) ==
    IF S = {} THEN <<>>
    ELSE LET m == CHOOSE x \in S : \A y \in S : x <= y
         IN <<m>> \o SortedSeq(S \ {m})

\* Task.find(where): the in-memory copies of the matching documents
TaskDocOf(tk, t) ==
    [id |-> t, assignedUser |-> tk[t].assignedUser,
     assignedUserName |-> tk[t].assignedUserName, completed |-> tk[t].completed]

\* the stored form of an in-memory Task document
Stored(doc) ==
    [exists |-> TRUE, assignedUser |-> doc.assignedUser,
     assignedUserName |-> doc.assignedUserName, completed |-> doc.completed]

\* a lookup that leaves out the Tasks another User holds
FindTasks_Unassigned(tk, ids) ==
    LET hit == {t \in TaskIds : t \in ids /\ tk[t].exists /\ tk[t].assignedUser = Null}
        s == SortedSeq(hit)
    IN [i \in 1..Len(s) |-> TaskDocOf(tk, s[i])]

FindTasks(tk, ids) ==
    LET hit == {t \in TaskIds : t \in ids /\ tk[t].exists}
        s == SortedSeq(hit)
    IN [i \in 1..Len(s) |-> TaskDocOf(tk, s[i])]

\* Task.find({_id: {$in: ids}, assignedUser: u})
FindTasksOf(tk, ids, u) ==
    SelectSeq(FindTasks(tk, ids), LAMBDA d : d.assignedUser = u)

\* document.save() of a loaded document sends the modified paths only
SavedTask(stored, doc, orig) ==
    [stored EXCEPT
       !.assignedUser = IF doc.assignedUser # orig.assignedUser
                        THEN doc.assignedUser ELSE @,
       !.assignedUserName = IF doc.assignedUserName # orig.assignedUserName
                            THEN doc.assignedUserName ELSE @,
       !.completed = IF doc.completed # orig.completed THEN doc.completed ELSE @]

SavedUser(stored, doc, orig) ==
    [stored EXCEPT
       !.name = IF doc.name # orig.name THEN doc.name ELSE @,
       !.email = IF doc.email # orig.email THEN doc.email ELSE @,
       !.pendingTasks = IF doc.pendingTasks # orig.pendingTasks
                        THEN doc.pendingTasks ELSE @]

\* applyAssignment, the part before the lookup:
\* "none" (unassign), "invalid" (throws 400) or "lookup"
assignmentKind(assignedUserId) ==
    IF assignedUserId = EmptyStr \/ assignedUserId = Null THEN "none"
    ELSE IF ~isValidObjectId(assignedUserId) THEN "invalid"
    ELSE "lookup"

\* the assignee set without its name
AssignedTo_NoName(doc, uid, uname) == [doc EXCEPT !.assignedUser = uid]

Unassigned(doc) ==
    [doc EXCEPT !.assignedUser = Null, !.assignedUserName = "unassigned"]

AssignedTo(doc, uid, uname) ==
    [doc EXCEPT !.assignedUser = uid, !.assignedUserName = uname]

\* ----------------------------------------------------------- query parsing
\* A query parameter is a text, or absent (req.query.x === undefined).
Absent == "<absent>"

\* A parsed JSON value: an object is known by its keys _id and name, whose
\* values are written as JSON does ("1" the number 1, "\"1\"" the string "1").
Obj(id, name) == [type |-> "object", id |-> id, name |-> name]
JsonNull == [type |-> "null", id |-> Absent, name |-> Absent]
Undefined == [type |-> "undefined", id |-> Absent, name |-> Absent]

Returned(v) == [threw |-> FALSE, value |-> v]
SyntaxError == [threw |-> TRUE, value |-> Undefined]

\* JSON.parse on the texts the requests carry; any other text is no JSON
JSONparse(text) ==
    CASE text = "{}" -> Returned(Obj(Absent, Absent))
      [] text = "{\"_id\":1}" -> Returned(Obj("1", Absent))
      [] text = "{\"_id\":1.0}" -> Returned(Obj("1", Absent))
      [] text = "{\"_id\":0}" -> Returned(Obj("0", Absent))
      [] text = "{\"_id\":2}" -> Returned(Obj("2", Absent))
      [] text = "{\"_id\":\"1\"}" -> Returned(Obj("\"1\"", Absent))
      [] text = "{\"_id\":true}" -> Returned(Obj("true", Absent))
      [] text = "{\"name\":1}" -> Returned(Obj(Absent, "1"))
      [] text = "{\"_id\":0,\"name\":1}" -> Returned(Obj("0", "1"))
      [] text = "{\"_id\":1,\"name\":0}" -> Returned(Obj("1", "0"))
      [] text = "{\"_id\":2,\"name\":1}" -> Returned(Obj("2", "1"))
      [] text = "null" -> Returned(JsonNull)
      [] OTHER -> SyntaxError

\* what a parser hands back: a value, or an error thrown
NoError == [threw |-> FALSE, statusCode |-> "none", message |-> <<>>]
InvalidJSON(name) ==
    [threw |-> TRUE, statusCode |-> "400", message |-> <<"Invalid JSON in", name>>]
\* the SyntaxError of a bare JSON.parse: no statusCode, no key
BareSyntaxError ==
    [threw |-> TRUE, statusCode |-> "none", message |-> <<"Unexpected token">>]

\* parseJSONParam(val, name): the error, and the value
parseJSONParamError(val, name) ==
    IF val = Absent THEN NoError
    ELSE IF JSONparse(val).threw THEN InvalidJSON(name)
    ELSE NoError

parseJSONParam(val) == IF val = Absent THEN Undefined ELSE JSONparse(val).value

\* x || undefined
OrUndefined(v) == IF v.type \in {"undefined", "null"} THEN Undefined ELSE v

\* req.query.where ?? req.query.filter
rawWhereOf(req) == IF req.where # Absent THEN req.where ELSE req.filter

\* rawWhere === req.query.where ? 'where' : 'filter'
whereName(req) == IF rawWhereOf(req) = req.where THEN "where" ELSE "filter"

\* rawWhere ? ... : {} takes the absent and the empty text for no predicate
Falsy(raw) == raw = Absent \/ raw = ""

\* +x, Number.isFinite and Math.max(0, .) on the texts the requests carry
toNumber(raw) ==
    CASE raw = "5" -> 5
      [] raw = "-3" -> -3
      [] raw = "" -> 0
      [] OTHER -> -1

isFinite(raw) == raw \in {"5", "-3", ""}

Paging(raw, default) ==
    IF isFinite(raw) THEN (IF toNumber(raw) > 0 THEN toNumber(raw) ELSE 0) ELSE default

\* String(req.query.count).toLowerCase() === 'true'
countOf(raw) == toLowerCase(raw) = "true"

NoParsed ==
    [error |-> NoError, where |-> Undefined, sort |-> Undefined, select |-> Undefined,
     skip |-> 0, limit |-> 0, count |-> FALSE]

\* the first error thrown, in the order the parameters are parsed
FirstError(errs) ==
    LET thrown == SelectSeq(errs, LAMBDA e : e.threw)
    IN IF thrown = <<>> THEN NoError ELSE Head(thrown)

Parsed(errs, where, sort, select, skip, limit, count) ==
    IF FirstError(errs).threw THEN [NoParsed EXCEPT !.error = FirstError(errs)]
    ELSE [error |-> NoError, where |-> where, sort |-> sort, select |-> select,
          skip |-> skip, limit |-> limit, count |-> count]

\* routes/_utils.js parseQueryParams: where goes through a bare JSON.parse
parseQueryParams(req, defaultLimit) ==
    LET rawWhere == rawWhereOf(req)
        whereError == IF Falsy(rawWhere) THEN NoError
                      ELSE IF JSONparse(rawWhere).threw THEN BareSyntaxError
                      ELSE NoError
        where == IF Falsy(rawWhere) THEN Obj(Absent, Absent)
                 ELSE JSONparse(rawWhere).value
    IN Parsed(<<whereError, parseJSONParamError(req.sort, "sort"),
                parseJSONParamError(req.select, "select")>>,
              where, OrUndefined(parseJSONParam(req.sort)),
              OrUndefined(parseJSONParam(req.select)),
              Paging(req.skip, 0), Paging(req.limit, defaultLimit), countOf(req.count))

\* routes/tasks parseQueryWithFilterAlias
parseQueryWithFilterAlias(req, defaultLimit) ==
    LET rawWhere == rawWhereOf(req)
        whereError == IF Falsy(rawWhere) THEN NoError
                      ELSE parseJSONParamError(rawWhere, whereName(req))
        where == IF Falsy(rawWhere) THEN Obj(Absent, Absent)
                 ELSE parseJSONParam(rawWhere)
    IN Parsed(<<whereError, parseJSONParamError(req.sort, "sort"),
                parseJSONParamError(req.select, "select")>>,
              where, OrUndefined(parseJSONParam(req.sort)),
              OrUndefined(parseJSONParam(req.select)),
              Paging(req.skip, 0), Paging(req.limit, defaultLimit), countOf(req.count))

\* a rule that takes every number for a projection directive
IsProjectionDirective_AnyNumber(where) ==
    where.type = "object" /\ where.id \in {"1", "0", "2"}

\* where && typeof where === 'object' && '_id' in where
\*   && (where._id === 1 || where._id === 0)
IsProjectionDirective(where) ==
    where.type = "object" /\ where.id # Absent /\ where.id \in {"1", "0"}

\* select = { ...(select || {}), _id: where._id }
selectWithId(where, select) ==
    IF IsProjectionDirective(where)
    THEN [(IF select.type = "object" THEN select ELSE Obj(Absent, Absent))
            EXCEPT !.id = where.id]
    ELSE select

\* delete where._id
whereWithoutId(where) ==
    IF IsProjectionDirective(where) THEN [where EXCEPT !.id = Absent] ELSE where

\* the parsing at the head of GET /users and GET /tasks: where, select, sort
ListQuery(req, defaultLimit) ==
    LET rawWhere == rawWhereOf(req)
        whereError == IF Falsy(rawWhere) THEN NoError
                      ELSE parseJSONParamError(rawWhere, whereName(req))
        where == IF Falsy(rawWhere) THEN Obj(Absent, Absent)
                 ELSE parseJSONParam(rawWhere)
        select == OrUndefined(parseJSONParam(req.select))
    IN Parsed(<<whereError, parseJSONParamError(req.select, "select"),
                parseJSONParamError(req.sort, "sort")>>,
              whereWithoutId(where), OrUndefined(parseJSONParam(req.sort)),
              selectWithId(where, select),
              Paging(req.skip, 0), Paging(req.limit, defaultLimit), countOf(req.count))

\* the default limit of GET /tasks; GET /users has none
TaskListLimit == 100

NoQuery == [where |-> Absent, filter |-> Absent, sort |-> Absent, select |-> Absent,
            skip |-> Absent, limit |-> Absent, count |-> Absent]

WhereTexts ==
    {"{}", "{\"_id\":1}", "{\"_id\":1.0}", "{\"_id\":0}", "{\"_id\":2}",
     "{\"_id\":\"1\"}", "{\"_id\":true}", "{\"name\":1}", "{\"_id\":0,\"name\":1}",
     "{\"_id\":1,\"name\":0}", "{\"_id\":2,\"name\":1}", "null", "{'_id':1}", ""}

\* the query strings a client sends
Queries ==
    {[where |-> w, filter |-> f, sort |-> s, select |-> sel,
      skip |-> sk, limit |-> l, count |-> c] :
        w \in WhereTexts \cup {Absent},
        f \in {Absent, "{\"_id\":0}", "{bad"},
        s \in {Absent, "{\"name\":1}", "{bad"},
        sel \in {Absent, "{\"name\":1}", "{\"_id\":0,\"name\":1}", "null", "{bad"},
        sk \in {Absent, "5"},
        l \in {Absent, "5", "-3", "x"},
        c \in {Absent, "TRUE"}}

\* ---------------------------------------------------------------- requests
NoBody == [name |-> "", email |-> "", pendingTasks |-> <<>>, deadline |-> "absent",
           completed |-> "absent", assignedUser |-> Null]

Idle ==
    [pc |-> "idle", op |-> "none", resp |-> "none", id |-> Null, body |-> NoBody,
     doc |-> NoDoc, orig |-> NoDoc, udoc |-> NoUDoc, uorig |-> NoUDoc,
     prev |-> Null, curr |-> Null, toRemove |-> <<>>, toAdd |-> <<>>, queue |-> <<>>,
     userWrite |-> FALSE, taskWrite |-> FALSE, storeCall |-> FALSE, error |-> "",
     had |-> {}, failed |-> FALSE, redrive |-> FALSE]

AllocUsers == 1..(nextUser - 1)
AllocTasks == 1..(nextTask - 1)

\* the pendingTasks lists a client sends: the order of a list plays no part in
\* the handlers, so one order stands for each multiset of ids
ListsOver(S) ==
    {l \in UNION {[1..n -> S] : n \in 0..MaxListLen} :
        \A i \in 1..(Len(l) - 1) : l[i] <= l[i + 1]}

\* the ids a client can name: ids it has been given, and a malformed text
UserIdInputs == AllocUsers \cup {BadId}
TaskIdInputs == AllocTasks \cup {BadId}

TaskBodies ==
    {[NoBody EXCEPT !.name = "T", !.deadline = "1700000000000",
                    !.completed = c, !.assignedUser = a] :
        c \in {"absent", "TRUE"}, a \in AllocUsers \cup {Null, EmptyStr, BadId}}
    \cup {[NoBody EXCEPT !.deadline = "1700000000000"],
          [NoBody EXCEPT !.name = "T"],
          [NoBody EXCEPT !.name = "T", !.deadline = "not-a-date"]}

\* name and email as a client sends them
UserFields == {<<"A", "a@x.com">>, <<"B", "b@x.com">>, <<"B", "A@X.COM">>}

\* a body whose pendingTasks is absent or is no array
NotAList == <<Null>>

\* Array.isArray(pendingTasks) ? pendingTasks : []
arrayOrEmpty(pendingTasks) == IF pendingTasks = NotAList THEN <<>> ELSE pendingTasks

UserBodies ==
    {[NoBody EXCEPT !.name = f[1], !.email = f[2], !.pendingTasks = l] :
        f \in UserFields, l \in ListsOver(AllocTasks) \cup {NotAList}}
    \cup {[NoBody EXCEPT !.email = "a@x.com"], [NoBody EXCEPT !.name = "A"]}

\* The store at the start holds the Users that n accepted POST /users requests
\* without pendingTasks have created (n = 0, 1, 2), and no Task.
SeedUsers ==
    <<[exists |-> TRUE, name |-> "A", email |-> "a@x.com", pendingTasks |-> <<>>],
      [exists |-> TRUE, name |-> "B", email |-> "b@x.com", pendingTasks |-> <<>>]>>

Init ==
    /\ nextUser \in {n \in 1..(Len(SeedUsers) + 1) : n <= NumUsers + 1}
    /\ users = [u \in UserIds |-> IF u < nextUser THEN SeedUsers[u] ELSE NoUser]
    /\ tasks = [t \in TaskIds |-> NoTask]
    /\ nextTask = 1
    /\ proc = [p \in Procs |-> Idle]
    /\ ops = 0
    /\ partial = [op |-> "none", id |-> Null, body |-> NoBody, task |-> Null,
                  prev |-> Null, curr |-> Null, state |-> "none"]
    /\ query = [entry |-> "none", req |-> NoQuery, out |-> NoParsed]

Me(p) == proc[p]

\* the handler goes on to its next store call
Goto(p, r) == proc' = [proc EXCEPT ![p] = r] /\ query' = query

\* res.status(code).json(...) or next(err): what the next request can still see
\* of this one is its verb, its ids, its status and error message, and which
\* kinds of store call it had issued (a handler at "start" has issued none)
Respond(p, code, r) ==
    /\ query' = query
    /\ proc' = [proc EXCEPT ![p] =
                  [Idle EXCEPT !.op = r.op, !.resp = code, !.id = r.id,
                               !.prev = r.prev, !.curr = r.curr,
                               !.doc = IF r.failed THEN r.doc
                                       ELSE [NoDoc EXCEPT !.id = r.doc.id],
                               !.userWrite = r.userWrite, !.taskWrite = r.taskWrite,
                               !.storeCall = (r.pc # "start"), !.error = r.error,
                               !.had = r.had,
                               !.failed = r.failed, !.redrive = r.redrive]]

\* res.status(code).json({message, data: null}), or a thrown error that
\* reaches next(err)
Fail(p, code, message, r) == Respond(p, code, [r EXCEPT !.error = message])

\* a request begins: is it the request that just failed half-way, sent again?
Begin(p, op, id, body, budget) ==
    /\ Me(p).pc = "idle"
    /\ ops < budget
    /\ ops' = ops + 1
    /\ partial' = IF partial.state = "failed" /\ partial.op = op
                     /\ partial.id = id /\ partial.body = body
                  THEN [partial EXCEPT !.state = "redriving"]
                  ELSE [partial EXCEPT !.state = "none"]

Fresh(op, id, body) ==
    [Idle EXCEPT !.pc = "start", !.op = op, !.id = id, !.body = body,
                 !.redrive = (partial'.state = "redriving")]
\* ------------------------------------------------------------ POST /tasks
\* ids are opaque: the id `new Task` draws is modelled where it is inserted,
\* and a request is admitted only while an id is left for it
Creating(op) == Cardinality({q \in Procs : proc[q].op = op /\ proc[q].pc # "idle"})

TaskPostStart(p, budget) ==
    \E body \in TaskBodies :
        /\ Begin(p, "TaskPost", Null, body, budget)
        /\ nextTask + Creating("TaskPost") <= NumTasks
        /\ LET r == Fresh("TaskPost", Null, body)
               doc == TaskSchema(coerceCompleted(body.completed, FALSE))
               kind == assignmentKind(body.assignedUser)
           IN IF body.name = "" \/ body.deadline = "absent"
              THEN Fail(p, "400", "name and deadline are required", r)
              ELSE IF deadlineThrows(body.deadline)
                   THEN Fail(p, "400", "deadline must be a valid date or epoch milliseconds", r)
              ELSE IF kind = "none"
                   THEN Goto(p, [r EXCEPT !.pc = "tp_save", !.doc = Unassigned(doc)])
              ELSE IF kind = "invalid"
                   THEN Fail(p, "400", "assignedUser is not a valid id", r)
              ELSE Goto(p, [r EXCEPT !.pc = "tp_find", !.doc = doc])
        /\ UNCHANGED <<users, tasks, nextUser, nextTask>>

\* a create that saves the Task before it has looked the assignee up
TaskPostFind_SaveFirst(p) ==
    /\ Me(p).pc = "tp_find"
    /\ LET r == [Me(p) EXCEPT !.taskWrite = TRUE]
           u == r.body.assignedUser
           t == nextTask
           d == [AssignedTo(r.doc, u, users[u].name) EXCEPT !.id = t]
       IN /\ tasks' = [tasks EXCEPT ![t] = Stored(d)]
          /\ nextTask' = t + 1
          /\ IF ~users[u].exists THEN Fail(p, "400", "assignedUser does not exist", r)
             ELSE Goto(p, [r EXCEPT !.pc = "tp_push", !.curr = u, !.doc = d])
    /\ UNCHANGED <<users, nextUser, ops, partial>>

\* applyAssignment: User.findById(assignedUserId)
TaskPostFind(p) ==
    /\ Me(p).pc = "tp_find"
    /\ LET r == Me(p)
           u == r.body.assignedUser
       IN IF ~users[u].exists THEN Fail(p, "400", "assignedUser does not exist", r)
          ELSE Goto(p, [r EXCEPT !.pc = "tp_save", !.curr = u,
                                 !.doc = AssignedTo(r.doc, u, users[u].name)])
    /\ UNCHANGED <<users, tasks, nextUser, nextTask, ops, partial>>

\* task.save(): the insert
TaskPostSave(p) ==
    /\ Me(p).pc = "tp_save"
    /\ LET r == Me(p)
           t == nextTask
           d == [r.doc EXCEPT !.id = t]
       IN /\ tasks' = [tasks EXCEPT ![t] = Stored(d)]
          /\ nextTask' = t + 1
          /\ IF r.curr # Null
             THEN Goto(p, [r EXCEPT !.pc = "tp_push", !.doc = d, !.taskWrite = TRUE])
             ELSE Respond(p, "201", [r EXCEPT !.doc = d, !.taskWrite = TRUE])
    /\ UNCHANGED <<users, nextUser, ops, partial>>

\* User.updateOne({_id, pendingTasks: {$ne: t}}, {$push: {pendingTasks: t}})
PushTo(us, u, t) ==
    IF u \in UserIds /\ us[u].exists
    THEN [us EXCEPT ![u].pendingTasks = PushIfAbsent(@, t)]
    ELSE us

\* User.updateOne({_id}, {$pull: {pendingTasks: t}})
PullFrom(us, u, t) ==
    IF u \in UserIds /\ us[u].exists
    THEN [us EXCEPT ![u].pendingTasks = Pull(@, t)]
    ELSE us

TaskPostPush(p) ==
    /\ Me(p).pc = "tp_push"
    /\ LET r == Me(p)
       IN /\ users' = PushTo(users, r.curr, r.doc.id)
          /\ Respond(p, "201", [r EXCEPT !.userWrite = TRUE])
    /\ UNCHANGED <<tasks, nextUser, nextTask, ops, partial>>

\* a catch block that undoes the Task write
catchAfterTaskWrite_Rollback(tk, t, before) == [tk EXCEPT ![t] = before]

\* catch (err) { next(err) } after the Task write: what is done to the Tasks
catchAfterTaskWrite(tk, t, before) == tk

\* next(err) with an error that carries no statusCode
storeErrorStatus == "error"

\* the User-side store call throws: catch (err) { next(err) }
SecondaryFails(p, pcs, before) ==
    /\ Me(p).pc \in pcs
    /\ LET r == Me(p)
       IN /\ tasks' = catchAfterTaskWrite(tasks, r.doc.id, before)
          /\ Fail(p, storeErrorStatus, "store error", [r EXCEPT !.failed = TRUE])
          /\ partial' = [op |-> r.op, id |-> r.id, body |-> r.body, task |-> r.doc.id,
                         prev |-> r.prev, curr |-> r.curr, state |-> "failed"]
    /\ UNCHANGED <<users, nextUser, nextTask, ops>>

TaskPostPushFail(p) == SecondaryFails(p, {"tp_push"}, NoTask)

\* ------------------------------------------------------- PUT /tasks/:id
TaskPutStart(p, budget) ==
    \E id \in TaskIdInputs, body \in TaskBodies :
        /\ Begin(p, "TaskPut", id, body, budget)
        /\ LET r == Fresh("TaskPut", id, body)
           IN IF ~isValidObjectId(id) THEN Fail(p, "400", "Invalid task id", r)
              ELSE Goto(p, [r EXCEPT !.pc = "tu_load"])
        /\ UNCHANGED <<users, tasks, nextUser, nextTask>>

\* Task.findById, then the body checks and applyAssignment up to its lookup
TaskPutLoad(p) ==
    /\ Me(p).pc = "tu_load"
    /\ LET r == Me(p)
           body == r.body
           existing == TaskDocOf(tasks, r.id)
           doc == [existing EXCEPT !.completed = coerceCompleted(body.completed, FALSE)]
           kind == assignmentKind(body.assignedUser)
           r1 == [r EXCEPT !.orig = existing, !.prev = existing.assignedUser]
       IN IF ~tasks[r.id].exists THEN Fail(p, "404", "Task not found", r)
          ELSE IF body.name = "" \/ body.deadline = "absent"
               THEN Fail(p, "400", "name and deadline are required", r)
          ELSE IF deadlineThrows(body.deadline)
               THEN Fail(p, "400", "deadline must be a valid date or epoch milliseconds", r1)
          ELSE IF kind = "none"
               THEN Goto(p, [r1 EXCEPT !.pc = "tu_save", !.doc = Unassigned(doc)])
          ELSE IF kind = "invalid"
               THEN Fail(p, "400", "assignedUser is not a valid id", r1)
          ELSE Goto(p, [r1 EXCEPT !.pc = "tu_find", !.doc = doc])
    /\ UNCHANGED <<users, tasks, nextUser, nextTask, ops, partial>>

TaskPutFind(p) ==
    /\ Me(p).pc = "tu_find"
    /\ LET r == Me(p)
           u == r.body.assignedUser
       IN IF ~users[u].exists THEN Fail(p, "400", "assignedUser does not exist", r)
          ELSE Goto(p, [r EXCEPT !.pc = "tu_save", !.curr = u,
                                 !.doc = AssignedTo(r.doc, u, users[u].name)])
    /\ UNCHANGED <<users, tasks, nextUser, nextTask, ops, partial>>

\* where the handler goes after existing.save()
AfterTaskPutSave(prev, curr) ==
    IF NeedPull(prev, curr) THEN "tu_pull"
    ELSE IF NeedPush(prev, curr) THEN "tu_push"
    ELSE "respond"

\* existing.save(): throws when the document is gone
TaskPutSave(p) ==
    /\ Me(p).pc = "tu_save"
    /\ LET r == Me(p)
           nxt == AfterTaskPutSave(r.prev, r.curr)
       IN IF ~tasks[r.id].exists
          THEN /\ Fail(p, storeErrorStatus, "document not found", r)
               /\ tasks' = tasks
          ELSE /\ tasks' = [tasks EXCEPT ![r.id] = SavedTask(@, r.doc, r.orig)]
               /\ IF nxt = "respond" THEN Respond(p, "200", [r EXCEPT !.taskWrite = TRUE])
                  ELSE Goto(p, [r EXCEPT !.pc = nxt, !.taskWrite = TRUE])
    /\ UNCHANGED <<users, nextUser, nextTask, ops, partial>>

TaskPutPull(p) ==
    /\ Me(p).pc = "tu_pull"
    /\ LET r == [Me(p) EXCEPT !.userWrite = TRUE]
       IN /\ users' = PullFrom(users, r.prev, r.id)
          /\ IF NeedPush(r.prev, r.curr) THEN Goto(p, [r EXCEPT !.pc = "tu_push"])
             ELSE Respond(p, "200", r)
    /\ UNCHANGED <<tasks, nextUser, nextTask, ops, partial>>

TaskPutPush(p) ==
    /\ Me(p).pc = "tu_push"
    /\ LET r == [Me(p) EXCEPT !.userWrite = TRUE]
       IN /\ users' = PushTo(users, r.curr, r.id)
          /\ Respond(p, "200", r)
    /\ UNCHANGED <<tasks, nextUser, nextTask, ops, partial>>

TaskPutPullFail(p) == SecondaryFails(p, {"tu_pull"}, Stored(Me(p).orig))

TaskPutPushFail(p) == SecondaryFails(p, {"tu_push"}, Stored(Me(p).orig))

\* ---------------------------------------------------- DELETE /tasks/:id
TaskDeleteStart(p, budget) ==
    \E id \in TaskIdInputs :
        /\ Begin(p, "TaskDelete", id, NoBody, budget)
        /\ LET r == Fresh("TaskDelete", id, NoBody)
           IN IF ~isValidObjectId(id) THEN Fail(p, "400", "Invalid task id", r)
              ELSE Goto(p, [r EXCEPT !.pc = "td_load"])
        /\ UNCHANGED <<users, tasks, nextUser, nextTask>>

\* a delete that takes the id out of the assignee's list before the Task goes
TaskDeleteLoad_PullFirst(p) ==
    /\ Me(p).pc = "td_load"
    /\ LET r == Me(p)
           task == TaskDocOf(tasks, r.id)
       IN IF ~tasks[r.id].exists
          THEN Fail(p, "404", "Task not found", r) /\ users' = users
          ELSE /\ users' = PullFrom(users, task.assignedUser, r.id)
               /\ Goto(p, [r EXCEPT !.pc = "td_delete", !.doc = task, !.orig = task,
                                    !.prev = task.assignedUser,
                                    !.userWrite = (task.assignedUser # Null)])
    /\ UNCHANGED <<tasks, nextUser, nextTask, ops, partial>>

TaskDeleteLoad(p) ==
    /\ Me(p).pc = "td_load"
    /\ LET r == Me(p)
           task == TaskDocOf(tasks, r.id)
       IN IF ~tasks[r.id].exists THEN Fail(p, "404", "Task not found", r)
          ELSE Goto(p, [r EXCEPT !.pc = "td_delete", !.doc = task, !.orig = task,
                                 !.prev = task.assignedUser])
    /\ UNCHANGED <<users, tasks, nextUser, nextTask, ops, partial>>

\* task.deleteOne()
TaskDeleteDelete(p) ==
    /\ Me(p).pc = "td_delete"
    /\ LET r == [Me(p) EXCEPT !.taskWrite = TRUE]
       IN /\ tasks' = [tasks EXCEPT ![r.id] = NoTask]
          /\ IF r.prev # Null THEN Goto(p, [r EXCEPT !.pc = "td_pull"])
             ELSE Respond(p, "204", r)
    /\ UNCHANGED <<users, nextUser, nextTask, ops, partial>>

TaskDeletePull(p) ==
    /\ Me(p).pc = "td_pull"
    /\ LET r == [Me(p) EXCEPT !.userWrite = TRUE]
       IN /\ users' = PullFrom(users, r.prev, r.id)
          /\ Respond(p, "204", r)
    /\ UNCHANGED <<tasks, nextUser, nextTask, ops, partial>>

TaskDeletePullFail(p) == SecondaryFails(p, {"td_pull"}, Stored(Me(p).orig))
\* ------------------------------------------------------------ POST /users
EmailTaken(us, email, except) ==
    \E u \in UserIds : u # except /\ us[u].exists /\ us[u].email = toLowerCase(email)

UserPostStart(p, budget) ==
    \E body \in UserBodies :
        /\ Begin(p, "UserPost", Null, body, budget)
        /\ nextUser + Creating("UserPost") <= NumUsers
        /\ LET r == Fresh("UserPost", Null, body)
           IN IF body.name = "" \/ body.email = ""
              THEN Fail(p, "400", "name and email are required", r)
              ELSE Goto(p, [r EXCEPT !.pc = "up_find"])
        /\ UNCHANGED <<users, tasks, nextUser, nextTask>>

\* User.findOne({email})
UserPostFind(p) ==
    /\ Me(p).pc = "up_find"
    /\ LET r == Me(p)
           b == r.body
       IN IF EmailTaken(users, b.email, Null)
          THEN Fail(p, "400", "A user with that email already exists", r)
          ELSE Goto(p, [r EXCEPT !.pc = "up_save", !.body = NoBody,
                                 !.udoc = UserSchema(b.name, b.email,
                                                     arrayOrEmpty(b.pendingTasks))])
    /\ UNCHANGED <<users, tasks, nextUser, nextTask, ops, partial>>

\* user.save(): the insert
UserPostSave(p) ==
    /\ Me(p).pc = "up_save"
    /\ LET u == nextUser
           d == [Me(p).udoc EXCEPT !.id = u]
           r == [Me(p) EXCEPT !.udoc = d, !.id = u, !.userWrite = TRUE]
       IN /\ users' = [users EXCEPT ![u] =
                         [exists |-> TRUE, name |-> d.name, email |-> d.email,
                          pendingTasks |-> d.pendingTasks]]
          /\ nextUser' = u + 1
          /\ IF Len(d.pendingTasks) > 0 THEN Goto(p, [r EXCEPT !.pc = "up_tasks"])
             ELSE Respond(p, "201", r)
    /\ UNCHANGED <<tasks, nextTask, ops, partial>>

\* Task.find({_id: {$in: user.pendingTasks}})
UserPostTasks(p) ==
    /\ Me(p).pc = "up_tasks"
    /\ LET r == Me(p)
           found == FindTasks(tasks, Range(r.udoc.pendingTasks))
       IN IF found = <<>> THEN Respond(p, "201", r)
          ELSE Goto(p, [r EXCEPT !.pc = "up_loop", !.queue = found])
    /\ UNCHANGED <<users, tasks, nextUser, nextTask, ops, partial>>

\* one turn of a `for (const t of tasks)` loop: t is changed and saved
SaveHead(p, changed, after, code) ==
    LET r == [Me(p) EXCEPT !.taskWrite = TRUE]
        t == Head(r.queue)
        rest == Tail(r.queue)
    IN IF ~tasks[t.id].exists
       THEN /\ Fail(p, storeErrorStatus, "document not found", Me(p))
            /\ tasks' = tasks
       ELSE /\ tasks' = [tasks EXCEPT ![t.id] = SavedTask(@, changed, t)]
            /\ IF rest # <<>> THEN Goto(p, [r EXCEPT !.queue = rest])
               ELSE IF after = "respond" THEN Respond(p, code, r)
               ELSE Goto(p, [r EXCEPT !.queue = rest, !.pc = after])

UserPostLoop(p) ==
    /\ Me(p).pc = "up_loop"
    /\ SaveHead(p, AssignedTo(Head(Me(p).queue), Me(p).udoc.id, Me(p).udoc.name),
                "respond", "201")
    /\ UNCHANGED <<users, nextUser, nextTask, ops, partial>>

\* ------------------------------------------------------- PUT /users/:id
UserPutStart(p, budget) ==
    \E id \in UserIdInputs, body \in UserBodies :
        /\ Begin(p, "UserPut", id, body, budget)
        /\ LET r == Fresh("UserPut", id, body)
           IN IF ~isValidObjectId(id) THEN Fail(p, "400", "Invalid user id", r)
              ELSE IF body.name = "" \/ body.email = ""
                   THEN Fail(p, "400", "name and email are required", r)
              ELSE Goto(p, [r EXCEPT !.pc = "uu_load"])
        /\ UNCHANGED <<users, tasks, nextUser, nextTask>>

\* User.findById
UserPutLoad(p) ==
    /\ Me(p).pc = "uu_load"
    /\ LET r == Me(p)
           user == [id |-> r.id, name |-> users[r.id].name, email |-> users[r.id].email,
                    pendingTasks |-> users[r.id].pendingTasks]
       IN IF ~users[r.id].exists THEN Fail(p, "404", "User not found", r)
          ELSE Goto(p, [r EXCEPT !.pc = "uu_dup", !.udoc = user, !.uorig = user])
    /\ UNCHANGED <<users, tasks, nextUser, nextTask, ops, partial>>

\* a removal list that holds every id the User had
toRemoveOf_All(prevTaskIds, newTaskIds) == prevTaskIds

\* prevTaskIds.filter(id => !newSet.has(id))
toRemoveOf(prevTaskIds, newTaskIds) ==
    SelectSeq(prevTaskIds, LAMBDA id : id \notin Range(newTaskIds))

\* newTaskIds.filter(id => !prevSet.has(String(id)))
toAddOf(prevTaskIds, newTaskIds) ==
    SelectSeq(newTaskIds, LAMBDA id : id \notin Range(prevTaskIds))

\* User.findOne({_id: {$ne}, email}), then the new field values are set
UserPutDup(p) ==
    /\ Me(p).pc = "uu_dup"
    /\ LET r == Me(p)
           b == r.body
           newTaskIds == arrayOrEmpty(b.pendingTasks)
           prevTaskIds == r.udoc.pendingTasks
       IN IF EmailTaken(users, b.email, r.id)
          THEN Fail(p, "400", "A user with that email already exists", r)
          ELSE Goto(p, [r EXCEPT !.pc = "uu_save", !.body = NoBody,
                          !.toRemove = toRemoveOf(prevTaskIds, newTaskIds),
                          !.toAdd = toAddOf(prevTaskIds, newTaskIds),
                          !.udoc = [UserSchema(b.name, b.email, newTaskIds)
                                      EXCEPT !.id = r.id]])
    /\ UNCHANGED <<users, tasks, nextUser, nextTask, ops, partial>>

\* where the handler goes after user.save() and after the toRemove loop
AfterUserPutSave(toRemove, toAdd) ==
    IF toRemove # <<>> THEN "uu_findrm"
    ELSE IF toAdd # <<>> THEN "uu_findadd"
    ELSE "respond"

AfterRemove(toAdd) == IF toAdd # <<>> THEN "uu_findadd" ELSE "respond"

\* user.save(): throws when the document is gone
UserPutSave(p) ==
    /\ Me(p).pc = "uu_save"
    /\ LET r == [Me(p) EXCEPT !.userWrite = TRUE]
           nxt == AfterUserPutSave(r.toRemove, r.toAdd)
       IN IF ~users[r.id].exists
          THEN /\ Fail(p, storeErrorStatus, "document not found", Me(p))
               /\ users' = users
          ELSE /\ users' = [users EXCEPT ![r.id] = SavedUser(@, r.udoc, r.uorig)]
               /\ IF nxt = "respond" THEN Respond(p, "200", r)
                  ELSE Goto(p, [r EXCEPT !.pc = nxt])
    /\ UNCHANGED <<tasks, nextUser, nextTask, ops, partial>>

\* Task.find({_id: {$in: toRemove}, assignedUser: user._id})
UserPutFindRemove(p) ==
    /\ Me(p).pc = "uu_findrm"
    /\ LET r == Me(p)
           found == FindTasksOf(tasks, Range(r.toRemove), r.id)
           nxt == AfterRemove(r.toAdd)
       IN IF found # <<>> THEN Goto(p, [r EXCEPT !.pc = "uu_rm", !.queue = found])
          ELSE IF nxt = "respond" THEN Respond(p, "200", r)
          ELSE Goto(p, [r EXCEPT !.pc = nxt])
    /\ UNCHANGED <<users, tasks, nextUser, nextTask, ops, partial>>

UserPutRemove(p) ==
    /\ Me(p).pc = "uu_rm"
    /\ SaveHead(p, Unassigned(Head(Me(p).queue)), AfterRemove(Me(p).toAdd), "200")
    /\ UNCHANGED <<users, nextUser, nextTask, ops, partial>>

\* Task.find({_id: {$in: toAdd}})
UserPutFindAdd(p) ==
    /\ Me(p).pc = "uu_findadd"
    /\ LET r == Me(p)
           found == FindTasks(tasks, Range(r.toAdd))
       IN IF found # <<>> THEN Goto(p, [r EXCEPT !.pc = "uu_add", !.queue = found])
          ELSE Respond(p, "200", r)
    /\ UNCHANGED <<users, tasks, nextUser, nextTask, ops, partial>>

UserPutAdd(p) ==
    /\ Me(p).pc = "uu_add"
    /\ SaveHead(p, AssignedTo(Head(Me(p).queue), Me(p).udoc.id, Me(p).udoc.name),
                "respond", "200")
    /\ UNCHANGED <<users, nextUser, nextTask, ops, partial>>

\* ---------------------------------------------------- DELETE /users/:id
UserDeleteStart(p, budget) ==
    \E id \in UserIdInputs :
        /\ Begin(p, "UserDelete", id, NoBody, budget)
        /\ LET r == Fresh("UserDelete", id, NoBody)
           IN IF ~isValidObjectId(id) THEN Fail(p, "400", "Invalid user id", r)
              ELSE Goto(p, [r EXCEPT !.pc = "ud_load"])
        /\ UNCHANGED <<users, tasks, nextUser, nextTask>>

UserDeleteLoad(p) ==
    /\ Me(p).pc = "ud_load"
    /\ LET r == Me(p)
       IN IF ~users[r.id].exists THEN Fail(p, "404", "User not found", r)
          ELSE Goto(p, [r EXCEPT !.pc = "ud_unassign",
                          !.had = {t \in TaskIds : tasks[t].exists
                                                   /\ tasks[t].assignedUser = r.id}])
    /\ UNCHANGED <<users, tasks, nextUser, nextTask, ops, partial>>

\* a bulk update that clears the reference and leaves the name
UnassignAll_KeepName(tk, u) ==
    [t \in TaskIds |->
        IF tk[t].exists /\ tk[t].assignedUser = u
        THEN [tk[t] EXCEPT !.assignedUser = Null]
        ELSE tk[t]]

\* Task.updateMany({assignedUser}, {$set: {assignedUser: null, assignedUserName}})
UnassignAll(tk, u) ==
    [t \in TaskIds |->
        IF tk[t].exists /\ tk[t].assignedUser = u
        THEN [tk[t] EXCEPT !.assignedUser = Null, !.assignedUserName = "unassigned"]
        ELSE tk[t]]

\* where the handler is after Task.updateMany
AfterUnassign == "ud_delete"

UserDeleteUnassign(p) ==
    /\ Me(p).pc = "ud_unassign"
    /\ tasks' = UnassignAll(tasks, Me(p).id)
    /\ Goto(p, [Me(p) EXCEPT !.pc = AfterUnassign, !.taskWrite = TRUE])
    /\ UNCHANGED <<users, nextUser, nextTask, ops, partial>>

\* user.deleteOne()
UserDeleteDelete(p) ==
    /\ Me(p).pc = "ud_delete"
    /\ users' = [users EXCEPT ![Me(p).id] = NoUser]
    /\ Respond(p, "204", [Me(p) EXCEPT !.userWrite = TRUE])
    /\ UNCHANGED <<tasks, nextUser, nextTask, ops, partial>>

\* ------------------------------------------- GET /tasks/:id, GET /users/:id
\* the query strings sent with a read by id
GetQueries ==
    {NoQuery, [NoQuery EXCEPT !.select = "{\"name\":1}"],
     [NoQuery EXCEPT !.select = "{bad"], [NoQuery EXCEPT !.where = "{bad"]}

\* next(err): the boundary answers with err.statusCode when the error has one
StatusOf(e) == IF e.statusCode = "none" THEN storeErrorStatus ELSE e.statusCode

\* a read by id that looks the record up whatever the id is
TaskGetStart_NoIdCheck(p, budget) ==
    \E id \in TaskIdInputs, req \in GetQueries :
        /\ Begin(p, "TaskGet", id, NoBody, budget)
        /\ LET r == Fresh("TaskGet", id, NoBody)
               q == parseQueryWithFilterAlias(req, 0)
           IN IF q.error.threw
              THEN Fail(p, StatusOf(q.error), q.error.message[1], r)
              ELSE IF ~isValidObjectId(id)
                   THEN Fail(p, "404", "Task not found", [r EXCEPT !.pc = "tg_load"])
              ELSE Goto(p, [r EXCEPT !.pc = "tg_load"])
        /\ UNCHANGED <<users, tasks, nextUser, nextTask>>

TaskGetStart(p, budget) ==
    \E id \in TaskIdInputs, req \in GetQueries :
        /\ Begin(p, "TaskGet", id, NoBody, budget)
        /\ LET r == Fresh("TaskGet", id, NoBody)
               q == parseQueryWithFilterAlias(req, 0)
           IN IF ~isValidObjectId(id) THEN Fail(p, "400", "Invalid task id", r)
              ELSE IF q.error.threw
                   THEN Fail(p, StatusOf(q.error), q.error.message[1], r)
              ELSE Goto(p, [r EXCEPT !.pc = "tg_load"])
        /\ UNCHANGED <<users, tasks, nextUser, nextTask>>

\* Task.findById(id).select(select)
TaskGetLoad(p) ==
    /\ Me(p).pc = "tg_load"
    /\ IF ~tasks[Me(p).id].exists THEN Fail(p, "404", "Task not found", Me(p))
       ELSE Respond(p, "200", Me(p))
    /\ UNCHANGED <<users, tasks, nextUser, nextTask, ops, partial>>

UserGetStart(p, budget) ==
    \E id \in UserIdInputs, req \in GetQueries :
        /\ Begin(p, "UserGet", id, NoBody, budget)
        /\ LET r == Fresh("UserGet", id, NoBody)
               q == parseQueryParams(req, 0)
           IN IF ~isValidObjectId(id) THEN Fail(p, "400", "Invalid user id", r)
              ELSE IF q.error.threw
                   THEN Fail(p, StatusOf(q.error), q.error.message[1], r)
              ELSE Goto(p, [r EXCEPT !.pc = "ug_load"])
        /\ UNCHANGED <<users, tasks, nextUser, nextTask>>

\* User.findById(id).select(select)
UserGetLoad(p) ==
    /\ Me(p).pc = "ug_load"
    /\ IF ~users[Me(p).id].exists THEN Fail(p, "404", "User not found", Me(p))
       ELSE Respond(p, "200", Me(p))
    /\ UNCHANGED <<users, tasks, nextUser, nextTask, ops, partial>>

\* ------------------------------------------------- the parsers, called alone
\* the query string query.req is parsed by one of the four entry points
Call(entry, out) ==
    /\ query.entry = "none"
    /\ query' = [query EXCEPT !.entry = entry, !.out = out]
    /\ UNCHANGED <<users, tasks, nextUser, nextTask, proc, ops, partial>>

parseQueryParamsCall == Call("parseQueryParams", parseQueryParams(query.req, 0))

parseQueryWithFilterAliasCall ==
    Call("parseQueryWithFilterAlias", parseQueryWithFilterAlias(query.req, 0))

\* GET /users and GET /tasks up to the query they hand to the store
UsersListQuery == Call("GET /users", ListQuery(query.req, 0))

TasksListQuery == Call("GET /tasks", ListQuery(query.req, TaskListLimit))

\* --------------------------------------------- the email index of the store
\* The User schema is not part of the sources at hand. When it declares its
\* email unique, the store refuses the save of a taken email and the error
\* reaches next(err); when it does not, the save goes through (UserPostSave,
\* UserPutSave). Either may be the store the handlers run on.
duplicateKeyError == "E11000 duplicate key"

UserPostSaveRejected(p) ==
    /\ Me(p).pc = "up_save"
    /\ EmailTaken(users, Me(p).udoc.email, Null)
    /\ Fail(p, storeErrorStatus, duplicateKeyError, Me(p))
    /\ UNCHANGED <<users, tasks, nextUser, nextTask, ops, partial>>

UserPutSaveRejected(p) ==
    /\ Me(p).pc = "uu_save"
    /\ users[Me(p).id].exists
    /\ Me(p).udoc.email # Me(p).uorig.email
    /\ EmailTaken(users, Me(p).udoc.email, Me(p).id)
    /\ Fail(p, storeErrorStatus, duplicateKeyError, Me(p))
    /\ UNCHANGED <<users, tasks, nextUser, nextTask, ops, partial>>

\* ---------------------------------------------------------- specifications
TaskHandlers(p, budget) ==
    \/ TaskPostStart(p, budget) \/ TaskPostFind(p) \/ TaskPostSave(p) \/ TaskPostPush(p)
    \/ TaskPutStart(p, budget) \/ TaskPutLoad(p) \/ TaskPutFind(p) \/ TaskPutSave(p)
    \/ TaskPutPull(p) \/ TaskPutPush(p)
    \/ TaskDeleteStart(p, budget) \/ TaskDeleteLoad(p) \/ TaskDeleteDelete(p)
    \/ TaskDeletePull(p)

UserHandlers(p, budget) ==
    \/ UserPostStart(p, budget) \/ UserPostFind(p) \/ UserPostSave(p)
    \/ UserPostTasks(p) \/ UserPostLoop(p)
    \/ UserPutStart(p, budget) \/ UserPutLoad(p) \/ UserPutDup(p) \/ UserPutSave(p)
    \/ UserPutFindRemove(p) \/ UserPutRemove(p) \/ UserPutFindAdd(p) \/ UserPutAdd(p)
    \/ UserDeleteStart(p, budget) \/ UserDeleteLoad(p) \/ UserDeleteUnassign(p)
    \/ UserDeleteDelete(p)

Handlers(p, budget) == TaskHandlers(p, budget) \/ UserHandlers(p, budget)

StoreFailures(p) ==
    \/ TaskPostPushFail(p) \/ TaskPutPullFail(p) \/ TaskPutPushFail(p)
    \/ TaskDeletePullFail(p)

\* requests overlap: every interleaving of the store calls of two handlers
Next == \E p \in Procs : Handlers(p, ConcOps)

Spec == Init /\ [][Next]_vars

\* overlapping requests to /tasks only
TaskNext == \E p \in Procs : TaskHandlers(p, ConcOps)

TaskSpec == Init /\ [][TaskNext]_vars

\* one request at a time
SeqNext == Handlers(1, SeqOps)

SeqSpec == Init /\ [][SeqNext]_vars

\* one request at a time, and the User-side store call of a Task handler may throw
FailNext == Handlers(1, FailOps) \/ StoreFailures(1)

FailSpec == Init /\ [][FailNext]_vars
\* overlapping User creates and updates on a store that holds no Task, with
\* a store that may or may not have a unique index on email
EmailHandlers(p, budget) ==
    \/ UserPostStart(p, budget) \/ UserPostFind(p) \/ UserPostSave(p)
    \/ UserPutStart(p, budget) \/ UserPutLoad(p) \/ UserPutDup(p) \/ UserPutSave(p)
    \/ UserPostSaveRejected(p) \/ UserPutSaveRejected(p)

EmailNext == \E p \in Procs : EmailHandlers(p, ConcOps)

EmailSpec == Init /\ [][EmailNext]_vars

GetHandlers(p, budget) ==
    \/ TaskGetStart(p, budget) \/ TaskGetLoad(p)
    \/ UserGetStart(p, budget) \/ UserGetLoad(p)

\* one request at a time, the reads by id among them
IdNext == Handlers(1, IdOps) \/ GetHandlers(1, IdOps)

IdSpec == Init /\ [][IdNext]_vars

\* the query parsers applied to every query string of Queries
QueryNext ==
    \/ parseQueryParamsCall \/ parseQueryWithFilterAliasCall
    \/ UsersListQuery \/ TasksListQuery

\* an empty store, and any query string of Queries about to be parsed
QueryInit ==
    /\ nextUser = 1
    /\ users = [u \in UserIds |-> NoUser]
    /\ tasks = [t \in TaskIds |-> NoTask]
    /\ nextTask = 1
    /\ proc = [p \in Procs |-> Idle]
    /\ ops = 0
    /\ partial = [op |-> "none", id |-> Null, body |-> NoBody, task |-> Null,
                  prev |-> Null, curr |-> Null, state |-> "none"]
    /\ query \in {[entry |-> "none", req |-> req, out |-> NoParsed] : req \in Queries}

QuerySpec == QueryInit /\ [][QueryNext]_vars

\* ------------------------------------------------------------------ claims
Quiet == \A p \in Procs : proc[p].pc = "idle"

\* the request p has answered
Answered(p, op, code) ==
    proc[p].pc = "idle" /\ proc[p].op = op /\ proc[p].resp = code

ListOf(u) == users[u].pendingTasks

\* C1: after any sequence of completed User and Task requests, every id in a
\* User's pendingTasks that names an existing Task names a Task assigned to
\* that User, and no id occurs twice in the list.
C1_PendingTasksInvariant ==
    Quiet =>
        \A u \in UserIds : users[u].exists =>
            \A t \in Range(ListOf(u)) :
                /\ tasks[t].exists => tasks[t].assignedUser = u
                /\ Count(ListOf(u), t) = 1

\* C2: once every request in flight has completed, with no store failure, a
\* Task is assigned to a User exactly when its id is in that User's
\* pendingTasks, whatever the interleaving of the requests was.
C2_SidesAgreeWhenQuiet ==
    Quiet =>
        \A t \in TaskIds, u \in UserIds :
            (tasks[t].exists /\ users[u].exists) =>
                (tasks[t].assignedUser = u <=> t \in Range(ListOf(u)))

\* C3: a Task create or Task update that assigns the Task to a User leaves
\* the Task id exactly once in that User's pendingTasks, also when the same
\* assignment had been applied before.
C3_AssignedExactlyOnce ==
    \A p \in Procs :
        (/\ Answered(p, "TaskPost", "201") \/ Answered(p, "TaskPut", "200")
         /\ proc[p].curr # Null
         /\ users[proc[p].curr].exists)
        => Count(ListOf(proc[p].curr), proc[p].doc.id) = 1

\* C4: after a Task update that changed the assignee from prev to new, the
\* Task id is absent from prev's pendingTasks, present in new's, and the
\* Task's assignedUser is new (either of them may be none).
C4_Reassign ==
    \A p \in Procs :
        (Answered(p, "TaskPut", "200") /\ proc[p].prev # proc[p].curr) =>
            LET t == proc[p].id
                prev == proc[p].prev
                new == proc[p].curr
            IN /\ (prev # Null /\ users[prev].exists) => t \notin Range(ListOf(prev))
               /\ (new # Null /\ users[new].exists) => t \in Range(ListOf(new))
               /\ tasks[t].assignedUser = new

C4_Witness ==
    \E p \in Procs :
        /\ Answered(p, "TaskPut", "200")
        /\ proc[p].prev # Null /\ proc[p].curr # Null /\ proc[p].prev # proc[p].curr
        /\ users[proc[p].prev].exists /\ users[proc[p].curr].exists

\* C5: a Task update whose resolved assignee is the stored assignee issues no
\* write to any User record, whatever other Task fields it changes.
C5_NoUserWriteWhenUnchanged ==
    \A p \in Procs :
        (Answered(p, "TaskPut", "200") /\ proc[p].prev = proc[p].curr)
        => ~proc[p].userWrite

C5_Witness ==
    \E p \in Procs :
        /\ Answered(p, "TaskPut", "200")
        /\ proc[p].prev = proc[p].curr /\ proc[p].curr # Null
        /\ tasks[proc[p].id].completed
        /\ proc[p].id \in Range(ListOf(proc[p].curr))

\* C6: after a successful User delete the User record is gone and every Task
\* that was assigned to that User has assignedUser null and assignedUserName
\* "unassigned"; the Tasks are updated while the User record still exists.
C6_UserDeleteCascade ==
    \A p \in Procs :
        LET u == proc[p].id
            cleared == \A t \in proc[p].had :
                           tasks[t].exists =>
                               /\ tasks[t].assignedUser = Null
                               /\ tasks[t].assignedUserName = "unassigned"
        IN /\ Answered(p, "UserDelete", "204") => (~users[u].exists /\ cleared)
           /\ proc[p].pc = "ud_delete" => (users[u].exists /\ cleared)

C6_Witness ==
    \E p \in Procs :
        /\ Answered(p, "UserDelete", "204")
        /\ \E t \in proc[p].had : tasks[t].exists

\* C7: after a successful Task delete the Task is gone and its id is in the
\* pendingTasks of the User it was assigned to no more; the delete of an
\* unassigned Task issues no write to a User record.
C7_TaskDeleteCascade ==
    \A p \in Procs :
        Answered(p, "TaskDelete", "204") =>
            LET t == proc[p].id
                u == proc[p].prev
            IN /\ ~tasks[t].exists
               /\ (u # Null /\ users[u].exists) => t \notin Range(ListOf(u))
               /\ u = Null => ~proc[p].userWrite

C7_Witness ==
    \E p \in Procs :
        /\ Answered(p, "TaskDelete", "204")
        /\ proc[p].prev # Null /\ users[proc[p].prev].exists
        /\ proc[p].userWrite

\* the name a Task carries for the assignee u
NameOf(us, u) == IF u = Null THEN "unassigned" ELSE us[u].name

\* C8: every store write that creates a Task or changes its assignedUser
\* leaves assignedUserName equal to the name of the User now referenced, or
\* to "unassigned" when assignedUser is null.
C8_NameWrittenWithAssignee ==
    [][\A t \in TaskIds :
          (/\ tasks'[t].exists
           /\ ~tasks[t].exists \/ tasks'[t].assignedUser # tasks[t].assignedUser)
          => tasks'[t].assignedUserName = NameOf(users, tasks'[t].assignedUser)]_vars

C8_Witness ==
    \E p \in Procs, t \in TaskIds :
        /\ Answered(p, "UserPut", "200")
        /\ tasks[t].exists /\ tasks[t].assignedUser = proc[p].id
        /\ tasks[t].assignedUserName = "B"
        /\ \E q \in TaskIds : tasks[q].exists /\ tasks[q].assignedUser = Null

\* C9: when the User-side write of a Task create, update or delete has
\* failed after the Task write, sending the same request again leaves the
\* Task id out of the previous assignee's pendingTasks and exactly once in
\* the new assignee's.
C9_RedriveRepairs ==
    \A p \in Procs :
        (/\ proc[p].pc = "idle" /\ proc[p].redrive /\ ~proc[p].failed
         /\ partial.state = "redriving")
        => LET t == partial.task
               prev == partial.prev
               new == partial.curr
           IN /\ (prev # Null /\ prev # new /\ users[prev].exists)
                 => t \notin Range(ListOf(prev))
              /\ (new # Null /\ users[new].exists) => Count(ListOf(new), t) = 1

\* C10: when the User-side write of a Task create, update or delete fails,
\* the request ends in an error and the Task write it had made stays as it
\* was made.
C10_NoRollback ==
    \A p \in Procs :
        (proc[p].pc = "idle" /\ proc[p].failed) =>
            /\ proc[p].resp = "error"
            /\ proc[p].op = "TaskDelete" => ~tasks[proc[p].doc.id].exists
            /\ proc[p].op \in {"TaskPost", "TaskPut"}
               => tasks[proc[p].doc.id] = Stored(proc[p].doc)

C10_Witness ==
    \E p \in Procs :
        /\ proc[p].pc = "idle" /\ proc[p].failed /\ proc[p].op = "TaskPut"
        /\ proc[p].prev # Null /\ proc[p].curr # Null

\* the request whose handler takes this step
Acts(p) == proc'[p] # proc[p]

TaskSideOps == {"TaskPost", "TaskPut", "TaskDelete", "UserDelete"}

\* C11 (as claimed): in every request that changes an assignment (Task
\* create, update, delete; User create and update with pendingTasks; User
\* delete) the write of the Task side comes before any write to the User
\* side, so no handler writes a Task after it has written a User.
C11_TaskSideFirst ==
    [][\A p \in Procs :
          (Acts(p) /\ tasks' # tasks) => ~proc[p].userWrite]_vars

\* C11 (amended): Task create, update and delete and User delete write the
\* Task side before any write to the User side; User create and User update
\* with pendingTasks save the User record first and write the Tasks after.
C11_WriteOrder ==
    [][\A p \in Procs :
          Acts(p) =>
              /\ (proc[p].op \in TaskSideOps /\ tasks' # tasks) => ~proc[p].userWrite
              /\ (proc[p].op \in TaskSideOps /\ users' # users) => proc[p].taskWrite
              /\ (proc[p].op \in {"UserPost", "UserPut"} /\ tasks' # tasks)
                 => proc[p].userWrite]_vars

C11_Witness ==
    \E p \in Procs, q \in UserIds :
        /\ Answered(p, "UserPut", "200") /\ proc[p].userWrite /\ proc[p].taskWrite
        /\ q # proc[p].id /\ users[q].exists /\ ListOf(q) # <<>>

duplicateEmailMessages ==
    {"A user with that email already exists", duplicateKeyError}

\* C12: whatever the interleaving of User creates and updates, no two Users
\* hold the same lowercased email, and a create or update that would give a
\* User a taken email ends in the duplicate-email error (400) with no write.
C12_EmailUnique ==
    /\ \A u, v \in UserIds :
           (u # v /\ users[u].exists /\ users[v].exists)
           => users[u].email # users[v].email
    /\ \A p \in Procs :
           (proc[p].pc = "idle" /\ proc[p].error \in duplicateEmailMessages)
           => /\ proc[p].resp = "400"
              /\ proc[p].error = "A user with that email already exists"
              /\ ~proc[p].userWrite /\ ~proc[p].taskWrite

\* the errors coerceDeadline and applyAssignment throw
validationErrors ==
    {"deadline must be a valid date or epoch milliseconds",
     "assignedUser is not a valid id", "assignedUser does not exist"}

\* C13: a Task create or update that fails validation (a deadline that is no
\* date, a malformed assignee id, an assignee that names no User) has failed
\* before any store write: it answers 400 and has written neither a Task nor
\* a User.
C13_ValidationBeforeWrite ==
    \A p \in Procs :
        (/\ proc[p].pc = "idle" /\ proc[p].op \in {"TaskPost", "TaskPut"}
         /\ proc[p].error \in validationErrors)
        => /\ proc[p].resp = "400"
           /\ ~proc[p].taskWrite /\ ~proc[p].userWrite

C13_Witness ==
    \E p \in Procs :
        /\ Answered(p, "TaskPut", "400")
        /\ proc[p].error = "assignedUser does not exist"
        /\ tasks[proc[p].id].exists /\ tasks[proc[p].id].assignedUser # Null

\* C14: a User create with the list L saves the User first and then gives
\* every existing Task named in L the new User's id and name; an id of L that
\* names no Task is passed over without an error, and a Task that another
\* User held is overwritten without a conflict error.
C14_UserCreateAssigns ==
    \A p \in Procs :
        LET u == proc[p].id
        IN /\ proc[p].pc \in {"up_tasks", "up_loop"}
              => (users[u].exists /\ ListOf(u) = proc[p].udoc.pendingTasks)
           /\ (proc[p].pc = "idle" /\ proc[p].op = "UserPost" /\ proc[p].userWrite)
              => /\ proc[p].resp = "201"
                 /\ users[u].exists
                 /\ \A t \in Range(ListOf(u)) :
                        tasks[t].exists =>
                            /\ tasks[t].assignedUser = u
                            /\ tasks[t].assignedUserName = users[u].name

C14_Witness ==
    \E p \in Procs, t \in TaskIds, v \in UserIds :
        /\ Answered(p, "UserPost", "201")
        /\ t \in Range(ListOf(proc[p].id)) /\ tasks[t].exists
        /\ v # proc[p].id /\ users[v].exists /\ t \in Range(ListOf(v))

\* a User create has answered 201 with a list that names no Task
UserCreateWithMissingTask ==
    \E p \in Procs, t \in TaskIds :
        /\ Answered(p, "UserPost", "201")
        /\ t \in Range(ListOf(proc[p].id)) /\ ~tasks[t].exists

\* where a handler stands when its next store call is the lookup by the path id
LoadPcs == {"tu_load", "td_load", "uu_load", "ud_load", "tg_load", "ug_load"}

notFoundErrors == {"Task not found", "User not found", "assignedUser does not exist"}

NoWrite(p) == ~proc[p].taskWrite /\ ~proc[p].userWrite

\* C15 (as claimed): in every operation that looks a record up by an id of
\* the request (read, update, delete by id; the assignee of a Task create or
\* update) a malformed id ends in a client error with no store access, and a
\* well-formed id that names no record ends in not-found with no store write.
C15_IdCheckedFirst ==
    \A p \in Procs :
        proc[p].pc = "idle" =>
            /\ (proc[p].id = BadId \/ proc[p].error = "assignedUser is not a valid id")
               => (proc[p].resp = "400" /\ ~proc[p].storeCall)
            /\ proc[p].error \in notFoundErrors => NoWrite(p)

\* C15 (amended): no lookup is made with a malformed id; a malformed path id
\* ends in 400 with no store access; a malformed assignee id ends in 400 with
\* no store write, before any store access in a Task create and after the
\* read of the Task in a Task update; an id that names no record ends in
\* not-found (404, or 400 for the assignee) with no store write.
C15_IdValidity ==
    \A p \in Procs :
        /\ proc[p].pc \in LoadPcs => isValidObjectId(proc[p].id)
        /\ proc[p].pc \in {"tp_find", "tu_find"}
           => isValidObjectId(proc[p].body.assignedUser)
        /\ proc[p].pc = "idle" =>
            /\ proc[p].id = BadId
               => /\ proc[p].resp = "400" /\ ~proc[p].storeCall
                  /\ proc[p].error \in {"Invalid task id", "Invalid user id"}
            /\ proc[p].error = "assignedUser is not a valid id"
               => /\ proc[p].resp = "400" /\ NoWrite(p)
                  /\ proc[p].storeCall <=> proc[p].op = "TaskPut"
            /\ proc[p].error \in {"Task not found", "User not found"}
               => (proc[p].resp = "404" /\ NoWrite(p))
            /\ proc[p].error = "assignedUser does not exist"
               => (proc[p].resp = "400" /\ NoWrite(p))

C15_Witness ==
    \E p \in Procs :
        /\ Answered(p, "TaskPut", "400")
        /\ proc[p].error = "assignedUser is not a valid id"
        /\ proc[p].storeCall /\ tasks[proc[p].id].exists

\* the parameters of a query string that are present and are no JSON, the
\* predicate under the name of the alias that is read
Offending(req) ==
    LET pred == IF req.where # Absent THEN req.where ELSE req.filter
        key == IF req.where # Absent THEN "where" ELSE "filter"
    IN (IF pred # Absent /\ JSONparse(pred).threw THEN {key} ELSE {})
       \cup (IF req.sort # Absent /\ JSONparse(req.sort).threw THEN {"sort"} ELSE {})
       \cup (IF req.select # Absent /\ JSONparse(req.select).threw
             THEN {"select"} ELSE {})

\* C16: at each of the four query-parsing entry points, a present where (or
\* filter, when where is absent), sort or select that is no valid JSON makes
\* the call fail with the 400 error "Invalid JSON in '<key>'" that names an
\* offending key.
C16_MalformedQueryNamed ==
    (query.entry # "none" /\ Offending(query.req) # {})
    => \E key \in Offending(query.req) : query.out.error = InvalidJSON(key)

IdKeptInWhere ==
    /\ query.entry = "GET /users" /\ ~query.out.error.threw
    /\ query.req.where = "{\"_id\":\"1\"}"
    /\ query.out.where.id = "\"1\"" /\ query.out.select = Undefined

\* C18: once every request in flight has completed, no Task names in
\* assignedUser a User that does not exist, whatever the interleaving of a
\* Task create or update that assigns u with a delete of u.
C18_NoDanglingAssignee ==
    Quiet =>
        \A t \in TaskIds :
            (tasks[t].exists /\ tasks[t].assignedUser # Null)
            => users[tasks[t].assignedUser].exists

\* C19: a User update stores the pendingTasks list of the body (the empty
\* list when the body has none, or no list); it then unassigns the Tasks of
\* the old list that are not in the new one and are assigned to this User,
\* and gives this User's id and name to the existing Tasks of the new list
\* that were not in the old one; it writes no other Task (none that is in
\* both lists, none that was removed but is assigned to another User) and no
\* other User.
C19_UserUpdateSync ==
    [][\A p \in Procs :
          (Acts(p) /\ proc[p].op = "UserPut" /\ proc[p].pc # "idle") =>
              LET r == proc[p]
                  u == r.id
                  sent == r.body.pendingTasks
                  removed == Range(r.uorig.pendingTasks) \ Range(r.udoc.pendingTasks)
                  added == Range(r.udoc.pendingTasks) \ Range(r.uorig.pendingTasks)
              IN /\ (r.pc = "uu_dup" /\ proc'[p].pc = "uu_save")
                    => proc'[p].udoc.pendingTasks
                         = (IF sent = NotAList THEN <<>> ELSE sent)
                 /\ users' # users
                    => /\ ListOf(u)' = r.udoc.pendingTasks
                       /\ \A v \in UserIds \ {u} : users'[v] = users[v]
                 /\ \A t \in TaskIds :
                        tasks'[t] # tasks[t] =>
                            \/ /\ t \in removed /\ tasks[t].assignedUser = u
                               /\ tasks'[t].assignedUser = Null
                               /\ tasks'[t].assignedUserName = "unassigned"
                            \/ /\ t \in added
                               /\ tasks'[t].assignedUser = u
                               /\ tasks'[t].assignedUserName = r.udoc.name
                 /\ (proc'[p].pc = "idle" /\ proc'[p].resp = "200")
                    => /\ ListOf(u)' = r.udoc.pendingTasks
                       /\ \A t \in removed :
                              tasks'[t].exists => tasks'[t].assignedUser # u
                       /\ \A t \in added :
                              tasks'[t].exists =>
                                  /\ tasks'[t].assignedUser = u
                                  /\ tasks'[t].assignedUserName = r.udoc.name]_vars

\* the update stands between its two loops: a Task of the old list has been
\* unassigned, a Task of the new list is about to be taken
C19_Witness ==
    \E p \in Procs, t \in TaskIds :
        /\ proc[p].op = "UserPut" /\ proc[p].pc = "uu_findadd"
        /\ t \in Range(proc[p].toRemove)
        /\ tasks[t].exists /\ tasks[t].assignedUser = Null /\ proc[p].taskWrite
        /\ \E a \in Range(proc[p].toAdd) : tasks[a].exists

\* C20: in every store state, the states between two writes of a request
\* included, a Task whose assignedUser is null carries the assignedUserName
\* "unassigned".
C20_UnassignedName ==
    \A t \in TaskIds :
        (tasks[t].exists /\ tasks[t].assignedUser = Null)
        => tasks[t].assignedUserName = "unassigned"
====
